---- MODULE Spec2Model ----
(***************************************************************************)
(* FFmpegNode.execute of yak-ffmpeg-n8n-nodes, in its two variants:        *)
(*   "flags": src/nodes/FFmpegNode.node.ts (CLI flags, 30 s timeout)       *)
(*   "file" : src/unnamed/part_000 (JSON parameter file, binary bridge,    *)
(*            temp-file cleanup in finally)                                *)
(* One run of execute is a sequential process that suspends at every       *)
(* await; child-process events and timers are separate steps.  The temp    *)
(* directory and Date.now() are shared by all runs.                        *)
(***************************************************************************)
EXTENDS Integers, Sequences, FiniteSets, TLC

\* ------------------------------------------------------------- bounds
MaxItems == 2        \* items per input batch
MaxNow == 1          \* largest value Date.now() returns
MaxFaults == 1       \* environment failures (I/O errors, bad files) per behaviour

Runs == {"A", "B"}

\* ------------------------------------------------------------- values
\* JavaScript values that occur as node parameters, tagged by type.
Bool(b) == <<"bool", b>>
Str(s) == <<"str", s>>

\* `value` used as a condition: if (processedParameters[binaryPropNameKey])
Truthy(v) == IF v[1] = "bool" THEN v[2] ELSE v[2] # ""

\* String(value)
ToStr(v) == IF v[1] = "bool" THEN (IF v[2] THEN "true" ELSE "false") ELSE v[2]

\* JSON values
JNull == [jtype |-> "null"]
JObject(f) == [jtype |-> "object", fields |-> f]

\* Parameter names are sequences of tokens, so that endsWith and replace act
\* on the name's text: "aIsBinary" is <<"a", "IsBinary">>.
RECURSIVE NameStr(_)
NameStr(k) == IF k = <<>> THEN "" ELSE Head(k) \o NameStr(Tail(k))

\* k.endsWith('IsBinary')
EndsWith(k, tok) == Len(k) > 0 /\ k[Len(k)] = tok

\* toggleKey.replace('IsBinary', ''): the first occurrence only
RECURSIVE ReplaceFirst(_, _)
ReplaceFirst(k, tok) ==
    IF k = <<>> THEN <<>>
    ELSE IF Head(k) = tok THEN Tail(k)
    ELSE <<Head(k)>> \o ReplaceFirst(Tail(k), tok)

\* `${prefix}BinaryPropertyName`
BinaryPropNameKey(toggleKey) ==
    ReplaceFirst(toggleKey, "IsBinary") \o <<"BinaryPropertyName">>

\* ------------------------------------------------------------- inputs
\* The UI schema of the selected function (uiConfig.properties); one entry
\* has no name and is skipped by both variants.
UiProperties ==
    << [name |-> <<"text">>, default |-> Str("")],
       [name |-> <<>>, default |-> Str("x")],
       [name |-> <<"a", "IsBinary">>, default |-> Bool(FALSE)],
       [name |-> <<"a", "BinaryPropertyName">>, default |-> Str("data")],
       [name |-> <<"b", "IsBinary">>, default |-> Bool(FALSE)],
       [name |-> <<"b", "BinaryPropertyName">>, default |-> Str("")] >>

\* binaryInfo.fileName of an attachment that carries no file name
Undefined == "<undefined>"

\* Input items: the host's parameter values for the item (a name outside the
\* domain makes getNodeParameter throw / fall back) and its binary attachments.
ItemPlain ==
    [params |-> (<<"selectedFunction">> :> Str("f1"))
                @@ (<<"text">> :> Str("hello"))
                @@ (<<"a", "IsBinary">> :> Bool(FALSE)),
     binary |-> <<>>]
ItemOneBin ==
    [params |-> (<<"selectedFunction">> :> Str("f1"))
                @@ (<<"text">> :> Str("hello"))
                @@ (<<"a", "IsBinary">> :> Bool(TRUE))
                @@ (<<"a", "BinaryPropertyName">> :> Str("data")),
     binary |-> ("data" :> [bytes |-> "B1", fileName |-> Undefined])]
ItemTwoBin ==
    [params |-> (<<"selectedFunction">> :> Str("f1"))
                @@ (<<"a", "IsBinary">> :> Bool(TRUE))
                @@ (<<"a", "BinaryPropertyName">> :> Str("data"))
                @@ (<<"b", "IsBinary">> :> Bool(TRUE))
                @@ (<<"b", "BinaryPropertyName">> :> Str("data2")),
     binary |-> ("data" :> [bytes |-> "B1", fileName |-> "in.bin"])
                @@ ("data2" :> [bytes |-> "B2", fileName |-> "in.bin"])]
ItemMissingBin ==
    [params |-> (<<"selectedFunction">> :> Str("f1"))
                @@ (<<"a", "IsBinary">> :> Bool(TRUE))
                @@ (<<"a", "BinaryPropertyName">> :> Str("nope")),
     binary |-> <<>>]
ItemNoFunction ==
    [params |-> (<<"selectedFunction">> :> Str("")), binary |-> <<>>]
ItemKinds == {ItemPlain, ItemOneBin, ItemTwoBin, ItemMissingBin, ItemNoFunction}

\* What the child process can print and exit with.
Stdouts ==
    { <<"not json", "\n">>,
      <<"{\"status\":\"ok\"}", "\n">>,
      <<"\n", "{\"binary_data\":\"YWJj\",\"file_name\":\"x.bin\"}", "\n">>,
      <<"null">> }
Stderrs == {"", "boom"}

\* What spawning the script does on this machine: it cannot be started, it
\* never exits on its own, or it exits with a code, stdout and stderr (code
\* null: it was ended by a signal).
Scripts ==
    {[kind |-> "nolaunch", code |-> "-2", stdout |-> <<>>, stderr |-> ""],
     [kind |-> "hangs", code |-> "null", stdout |-> <<>>, stderr |-> ""]}
    \cup {[kind |-> "exits", code |-> "0", stdout |-> out, stderr |-> ""] : out \in Stdouts}
    \cup {[kind |-> "exits", code |-> "1", stdout |-> <<>>, stderr |-> e] : e \in Stderrs}
    \cup {[kind |-> "exits", code |-> "null", stdout |-> <<>>, stderr |-> ""]}

\* One script for each way the rest of the attempt can go.
ScriptsBasic ==
    {sc \in Scripts :
        /\ sc.stdout # <<"not json", "\n">>
        /\ sc.kind = "exits" /\ sc.code # "0" => sc.stderr # ""}

\* The entries a schema's properties array is made of here: the entries of
\* UiProperties and null.
UiEntries == {UiProperties[j] : j \in 1..Len(UiProperties)} \cup {JNull}

\* ------------------------------------------------------------- pure steps
RECURSIVE Dedup(_)
Dedup(s) ==
    IF s = <<>> THEN <<>>
    ELSE LET init == Dedup(SubSeq(s, 1, Len(s) - 1))
             last == s[Len(s)]
         IN IF \E i \in 1..Len(init) : init[i] = last THEN init ELSE Append(init, last)

\* The names of the schema, in order, without the nameless entries
\* (if (!prop.name) continue).
RECURSIVE NamedProps(_)
NamedProps(props) ==
    IF props = <<>> THEN <<>>
    ELSE IF Head(props).name = <<>> THEN NamedProps(Tail(props))
    ELSE <<Head(props)>> \o NamedProps(Tail(props))

RECURSIVE PropNames(_)
PropNames(props) ==
    IF props = <<>> THEN <<>> ELSE <<Head(props).name>> \o PropNames(Tail(props))

\* A resolution that ends at the first lookup that throws, for comparison
\* with ResolveParameters.
RECURSIVE NamesUntilThrow(_, _)
NamesUntilThrow(item, named) ==
    IF named = <<>> THEN {}
    ELSE IF Head(named).name \notin DOMAIN item.params THEN {}
    ELSE {Head(named).name} \cup NamesUntilThrow(item, Tail(named))
ResolveParametersStops(item, props) ==
    [k \in NamesUntilThrow(item, NamedProps(props)) |-> item.params[k]]

\* Parameter-file variant: parameters[prop.name] = getNodeParameter(prop.name, i),
\* a lookup that throws leaves the name out.
ResolveParameters(item, props) ==
    LET names == {NamedProps(props)[j].name : j \in 1..Len(NamedProps(props))}
    IN [k \in names \cap DOMAIN item.params |-> item.params[k]]

\* Object.keys(obj): insertion order, which is schema order here.
RECURSIVE KeepIn(_, _)
KeepIn(s, D) ==
    IF s = <<>> THEN <<>>
    ELSE IF Head(s) \in D THEN <<Head(s)>> \o KeepIn(Tail(s), D)
    ELSE KeepIn(Tail(s), D)

ObjectKeys(obj, props) == KeepIn(Dedup(PropNames(NamedProps(props))), DOMAIN obj)

\* Object.keys(processedParameters).filter(k => k.endsWith('IsBinary'))
RECURSIVE FilterToggles(_)
FilterToggles(keys) ==
    IF keys = <<>> THEN <<>>
    ELSE IF EndsWith(Head(keys), "IsBinary")
         THEN <<Head(keys)>> \o FilterToggles(Tail(keys))
         ELSE FilterToggles(Tail(keys))

BinaryToggleKeys(obj, props) == FilterToggles(ObjectKeys(obj, props))

\* The two ifs at the head of the toggle loop's body.
ToggleActive(pp, toggleKey) ==
    /\ pp[toggleKey] = Bool(TRUE)
    /\ BinaryPropNameKey(toggleKey) \in DOMAIN pp
    /\ Truthy(pp[BinaryPropNameKey(toggleKey)])

\* The toggles still to visit, from the first one whose body does something.
RECURSIVE SkipInactive(_, _)
SkipInactive(pp, toggles) ==
    IF toggles = <<>> THEN <<>>
    ELSE IF ToggleActive(pp, Head(toggles)) THEN toggles
    ELSE SkipInactive(pp, Tail(toggles))

\* binaryInfo.fileName ?? `${binaryPropertyName}.bin`
FileNameOf(binaryInfo, binaryPropertyName) ==
    IF binaryInfo.fileName = Undefined THEN binaryPropertyName \o ".bin"
    ELSE binaryInfo.fileName

\* path.join(os.tmpdir(), `n8n-ffmpeg-bin-${Date.now()}-${fileName}`)
BinTempPath(ts, fileName) ==
    "/tmp/n8n-ffmpeg-bin-" \o ToString(ts) \o "-" \o fileName

\* path.join(os.tmpdir(), `n8n-ffmpeg-params-${Date.now()}-${itemIndex}.json`)
ParamsTempPath(ts, idx) ==
    "/tmp/n8n-ffmpeg-params-" \o ToString(ts) \o "-" \o ToString(idx) \o ".json"

\* JSON.stringify(processedParameters, null, 2): the document the file holds
JSONStringify(obj) == [type |-> "json", doc |-> obj]
Bytes(b) == [type |-> "bytes", data |-> b]
\* what a writeFile that failed half-way leaves behind
Truncated == [type |-> "truncated"]

\* CLI-flag variant: getNodeParameter(prop.name, i, prop.default || '')
FlagValue(item, prop) ==
    IF prop.name \in DOMAIN item.params THEN item.params[prop.name]
    ELSE IF Truthy(prop.default) THEN prop.default
    ELSE Str("")

\* CLI-flag variant: the args pushed for the schema.  Reading prop.name of a
\* null entry throws; the catch around the loop keeps what was pushed so far.
RECURSIVE BuildArgs(_, _)
BuildArgs(item, props) ==
    IF props = <<>> THEN <<>>
    ELSE IF Head(props) = JNull THEN <<>>
    ELSE LET prop == Head(props)
             rest == BuildArgs(item, Tail(props))
         IN IF prop.name = <<>> THEN rest
            ELSE IF FlagValue(item, prop) # Str("")
                 THEN <<"--" \o NameStr(prop.name), ToStr(FlagValue(item, prop))>> \o rest
                 ELSE rest

\* stdout.trim() on the chunks the process wrote
IsSpace(c) == c \in {"\n", " "}
RECURSIVE TrimLeft(_)
TrimLeft(s) ==
    IF s = <<>> THEN <<>> ELSE IF IsSpace(Head(s)) THEN TrimLeft(Tail(s)) ELSE s
RECURSIVE TrimRight(_)
TrimRight(s) ==
    IF s = <<>> THEN <<>>
    ELSE IF IsSpace(s[Len(s)]) THEN TrimRight(SubSeq(s, 1, Len(s) - 1)) ELSE s
RECURSIVE Concat(_)
Concat(s) == IF s = <<>> THEN "" ELSE Head(s) \o Concat(Tail(s))
Trim(chunks) == Concat(TrimRight(TrimLeft(chunks)))

\* JSON.parse(text): [ok, value]
JSONParse(text) ==
    CASE text = "{\"status\":\"ok\"}" ->
            [ok |-> TRUE, value |-> JObject([status |-> "ok"])]
      [] text = "{\"binary_data\":\"YWJj\",\"file_name\":\"x.bin\"}" ->
            [ok |-> TRUE, value |-> JObject([binary_data |-> "YWJj", file_name |-> "x.bin"])]
      [] text = "null" -> [ok |-> TRUE, value |-> JNull]
      [] OTHER -> [ok |-> FALSE, value |-> JNull]

\* A fallback that keeps the text but does not mark it, for comparison with
\* DecodeResult.
DecodeResultUnmarked(scriptResult) ==
    IF JSONParse(scriptResult).ok THEN JSONParse(scriptResult).value
    ELSE JObject([output |-> scriptResult])

\* try { jsonResult = JSON.parse(scriptResult) } catch { fallback }
DecodeResult(scriptResult) ==
    IF JSONParse(scriptResult).ok THEN JSONParse(scriptResult).value
    ELSE JObject([output |-> scriptResult, parseError |-> TRUE])

\* jsonResult.binary_data && jsonResult.file_name, on an object
HasBinaryResult(json) ==
    /\ "binary_data" \in DOMAIN json.fields
    /\ "file_name" \in DOMAIN json.fields
    /\ json.fields.binary_data # ""
    /\ json.fields.file_name # ""

\* Buffer.from(text, 'base64')
Base64Decode(text) == IF text = "YWJj" THEN "abc" ELSE ""

\* The error messages of the failures.
MsgNoFunction == "No function selected."
MsgManifestMissing == "Manifest file not found: ffmpeg_node_manifest.json"
MsgReadJson(file) == "Failed to read or parse JSON file: " \o file
MsgNotFound(v) ==
    IF v = "flags" THEN "Function 'f1' not found in manifest."
    ELSE "Function 'f1' not found."
MsgNoScript(v, file) ==
    IF v = "flags" THEN "Script file not found: " \o file
    ELSE "ENOENT: no such file or directory, access '" \o file \o "'"
MsgNoBinary(name) == "Binary property '" \o name \o "' not found in input data."
MsgWriteFailed == "ENOSPC: no space left on device, write"
\* A message that always reports the exit code, for comparison with
\* MsgScriptFailed.
MsgScriptFailedCodeOnly(v, code, stderr) ==
    "Script failed: " \o
        (IF v = "flags" THEN "Script exited with code " \o code
         ELSE "Exited with code " \o code)
MsgScriptFailed(v, code, stderr) ==
    "Script failed: " \o
        (IF stderr # "" THEN stderr
         ELSE IF v = "flags" THEN "Script exited with code " \o code
         ELSE "Exited with code " \o code)
MsgLaunch(v) ==
    IF v = "flags" THEN "Failed to start script: spawn python3 ENOENT"
    ELSE "Failed to start script: spawn python ENOENT"
MsgTimeout == "Script execution timed out"
MsgNoFind == "Cannot read properties of undefined (reading 'find')"
MsgNullProp == "Cannot read properties of null (reading 'name')"
MsgNullResult == "Cannot read properties of null (reading 'binary_data')"

\* ------------------------------------------------------------- the dynamic form
\* The manifest lists at most MaxFunctions functions, the schema of the first
\* function at most MaxProps entries.
MaxFunctions == 2
MaxProps == 2

SeqsUpTo(S, n) == UNION {[1..k -> S] : k \in 0..n}

\* description.properties as the class declares it (only the fields the
\* builder deals with; an absent displayOptions is the empty object)
SelectedFunctionProperty ==
    [name |-> "selectedFunction", type |-> "options", displayOptions |-> <<>>]

\* The entries of the `properties` array of a schema file: objects and null.
RawNull == [jtype |-> "null"]
RawProp(name, type, d) ==
    [jtype |-> "object", name |-> name, type |-> type, displayOptions |-> d]
PropText == RawProp("text", "string", <<>>)
PropNoType == RawProp("note", "", <<>>)
PropCond ==
    RawProp("mode", "options",
            ("show" :> (("selectedFunction" :> <<"other">>) @@ ("text" :> <<"hello">>)))
            @@ ("hide" :> ("text" :> <<"off">>)))
PropShown == RawProp("size", "number", "show" :> ("text" :> <<"hello">>))
RawEntries == {PropText, PropNoType, PropShown, PropCond, RawNull}

\* A schema file: missing, not JSON, or an object with a properties array (an
\* absent array counts as the empty one).
SchemaMissing == [state |-> "missing", properties |-> <<>>]
SchemaUnparsable == [state |-> "unparsable", properties |-> <<>>]
SchemaOk(props) == [state |-> "ok", properties |-> props]
SchemaFiles ==
    {SchemaMissing, SchemaUnparsable}
    \cup {SchemaOk(ps) : ps \in SeqsUpTo(RawEntries, MaxProps)}
SchemaFilesOther == {SchemaMissing, SchemaOk(<<PropText>>)}

\* The entries of manifest.functions
FnOne == [name |-> "One", value |-> "f1", scriptFile |-> "f1.py", uiFile |-> "f1.ui.json"]
FnTwo == [name |-> "Two", value |-> "f2", scriptFile |-> "f2.py", uiFile |-> "f2.ui.json"]
FnNoUi == [name |-> "Three", value |-> "f3", scriptFile |-> "f3.py", uiFile |-> ""]
\* the first function again, after its script was renamed
FnOneMoved ==
    [name |-> "One", value |-> "f1", scriptFile |-> "f1_v2.py", uiFile |-> "f1.ui.json"]
FunctionEntries == {FnOne, FnTwo, FnNoUi}

\* The manifest file: absent, not JSON, without a functions array, or with one.
ManifestAbsent == [state |-> "absent", functions |-> <<>>]
ManifestUnparsable == [state |-> "unparsable", functions |-> <<>>]
ManifestNoFunctions == [state |-> "nofunctions", functions |-> <<>>]
ManifestOk(fns) == [state |-> "ok", functions |-> fns]
Manifests ==
    {ManifestAbsent, ManifestUnparsable, ManifestNoFunctions}
    \cup {ManifestOk(fns) : fns \in SeqsUpTo(FunctionEntries, MaxFunctions)}

\* if (!func.uiFile || !func.value) continue
ValidConfig(func) == func.uiFile # "" /\ func.value # ""

\* Reading prop.name of a null entry throws a TypeError.
Throws(prop) == prop.jtype = "null"

\* if (!prop.name || !prop.type) continue
Skipped(prop) == prop.name = "" \/ prop.type = ""

\* prop.displayOptions?.show || {}
ShowOf(prop) ==
    IF "show" \in DOMAIN prop.displayOptions THEN prop.displayOptions["show"] ELSE <<>>

\* { ...prop, displayOptions: { ...(prop.displayOptions || {}),
\*     show: { ...(prop.displayOptions?.show || {}), selectedFunction: [func.value] } } }
DynamicProperty(prop, value) ==
    [name |-> prop.name, type |-> prop.type,
     displayOptions |->
        ("show" :> (("selectedFunction" :> <<value>>) @@ ShowOf(prop)))
        @@ prop.displayOptions]

\* for (const prop of props) { ...; this.description.properties.push(...) }:
\* what the loop has pushed when it ends or throws
RECURSIVE Pushed(_, _)
Pushed(props, value) ==
    IF props = <<>> THEN <<>>
    ELSE IF Throws(Head(props)) THEN <<>>
    ELSE IF Skipped(Head(props)) THEN Pushed(Tail(props), value)
    ELSE <<DynamicProperty(Head(props), value)>> \o Pushed(Tail(props), value)

\* The position of the first function from i on that the loop does not skip,
\* 0 if there is none.
RECURSIVE NextFunction(_, _)
NextFunction(fns, i) ==
    IF i > Len(fns) THEN 0
    ELSE IF ValidConfig(fns[i]) THEN i
    ELSE NextFunction(fns, i + 1)

\* The files of the machine an execute runs on: one function, whose schema
\* holds the properties execute resolves.
ManifestOfRun == ManifestOk(<<FnOne>>)
SchemasFor(props) ==
    ("f1.ui.json" :>
        SchemaOk([i \in 1..Len(props) |->
                    IF props[i] = JNull THEN RawNull
                    ELSE RawProp(NameStr(props[i].name), "string", <<>>)]))
    @@ ("f2.ui.json" :> SchemaMissing)
SchemasOfRun == SchemasFor(UiProperties)

\* ------------------------------------------------------------- state
VARIABLES
    uiProps,         \* uiConfig.properties of the selected function's schema file,
                     \* as execute reads it (see UiProperties)
    manifest,        \* the manifest file on disk (see Manifests)
    schemas,         \* the schema files on disk, by file name (see SchemaFiles)
    build,           \* loadAndAppendDynamicProperties, which the constructor
                     \* starts and does not await: the await it is at, and
                     \* the position in manifest.functions
    registry,        \* this.description.properties
    script,          \* what the spawned script does (see Scripts)
    variant,         \* per run: "flags", "file", or "off" for a run that never starts
    continueOnFail,  \* per run: this.continueOnFail()
    itemCount,       \* per run: items.length, items being this.getInputData()
    item,            \* per run: items[itemIndex], read when its turn begins
    pc,              \* per run: the await execute is suspended at
    itemIndex,       \* per run: the loop counter (0-based)
    returnData,      \* per run: the records pushed so far
    loc,             \* per run: the locals of the current iteration
    tempFiles,       \* per run: the paths to clean up (parameter-file variant)
    proc,            \* per run and item: the child process, its promise, its timer
    fs,              \* the temp directory: path -> [content, owner]
    now,             \* the last value Date.now() returned
    faults,          \* environment failures injected so far
    failure,         \* history, per run: the error raised in the current attempt, or ""
    created,         \* history, per run: how often a writeFile of the current
                     \* attempt created a file at each path
    interference     \* history: a run overwrote or deleted another run's file

form == <<manifest, schemas, build, registry>>

exec == <<uiProps, script, variant, continueOnFail, itemCount, item, pc, itemIndex, returnData, loc, tempFiles,
          proc, fs, now, faults, failure, created, interference>>

vars == <<uiProps, manifest, schemas, build, registry,
          script, variant, continueOnFail, itemCount, item, pc, itemIndex, returnData, loc, tempFiles,
          proc, fs, now, faults, failure, created, interference>>

ctl == <<pc, itemIndex, returnData, loc, failure>>

Item(r) == item[r]

EmptyLoc ==
    [pp |-> <<>>, toggles |-> <<>>, path |-> "", json |-> JNull,
     rethrow |-> FALSE, k |-> 1, script |-> ""]

NoProc ==
    [state |-> "none", kind |-> "none", killed |-> FALSE, closed |-> FALSE,
     timer |-> "none", promise |-> "none", events |-> <<>>, argv |-> <<>>,
     settledBy |-> "none", result |-> ""]

\* Date.now(): never goes back, need not advance
Clock == {t \in now..MaxNow : t <= now + 1}

\* The outcomes of an operation of the environment: "ok", or one of `bad`
\* while the budget of failures lasts.
Outcomes(bad) == IF faults < MaxFaults THEN {"ok"} \cup bad ELSE {"ok"}
Charge(o) == faults' = IF o = "ok" THEN faults ELSE faults + 1

\* fs.access(manifestPath) and readJson(manifestPath): they fail when the
\* manifest is absent (or not JSON), and can fail otherwise as any operation.
ManifestAccess ==
    IF manifest.state = "absent" THEN {"missing"} ELSE Outcomes({"missing"})
ManifestRead ==
    IF manifest.state \in {"absent", "unparsable"} THEN {"unreadable"}
    ELSE Outcomes({"unreadable", "notfound"})
ChargeManifest(o) ==
    faults' = IF o = "ok" \/ manifest.state # "ok" THEN faults ELSE faults + 1

\* ------------------------------------------------------------- the catch clause
ErrorRecord(msg, idx) ==
    [json |-> JObject([error |-> msg]), pairedItem |-> [item |-> idx]]

\* A catch clause that records nothing, for comparison with CaughtData.
CaughtDataDropped(cof, data, msg, idx) == data

\* catch: if (this.continueOnFail()) { returnData.push({json: {error}, pairedItem}) }
CaughtData(cof, data, msg, idx) ==
    IF cof THEN Append(data, ErrorRecord(msg, idx)) ELSE data

\* A catch clause that never rethrows, for comparison with Rethrown.
RethrownNever(cof) == FALSE

\* catch: ... continue; } throw error;
Rethrown(cof) == ~cof

\* Leave the current await for `label`, inside the try block.
Goto(r, label, l) ==
    /\ pc' = [pc EXCEPT ![r] = label]
    /\ loc' = [loc EXCEPT ![r] = [l EXCEPT !.script = loc[r].script]]
    /\ UNCHANGED <<itemIndex, returnData, failure>>

\* An exception inside the try block: the catch clause, then (parameter-file
\* variant) the finally block, which runs before continue or throw take effect.
Raise(r, msg) ==
    /\ failure' = [failure EXCEPT ![r] = msg]
    /\ returnData' = [returnData EXCEPT
                        ![r] = CaughtData(continueOnFail[r], @, msg, itemIndex[r])]
    /\ IF variant[r] = "file"
       THEN /\ pc' = [pc EXCEPT ![r] = "finally"]
            /\ loc' = [loc EXCEPT
                         ![r] = [EmptyLoc EXCEPT !.rethrow = Rethrown(continueOnFail[r])]]
            /\ UNCHANGED itemIndex
       ELSE /\ loc' = [loc EXCEPT ![r] = EmptyLoc]
            /\ IF Rethrown(continueOnFail[r])
               THEN pc' = [pc EXCEPT ![r] = "thrown"] /\ UNCHANGED itemIndex
               ELSE /\ pc' = [pc EXCEPT ![r] = "loop"]
                    /\ itemIndex' = [itemIndex EXCEPT ![r] = @ + 1]

\* returnData.push(record) at the end of the try block.
Push(r, rec) ==
    /\ returnData' = [returnData EXCEPT ![r] = Append(@, rec)]
    /\ loc' = [loc EXCEPT ![r] = EmptyLoc]
    /\ UNCHANGED failure
    /\ IF variant[r] = "file"
       THEN pc' = [pc EXCEPT ![r] = "finally"] /\ UNCHANGED itemIndex
       ELSE /\ pc' = [pc EXCEPT ![r] = "loop"]
            /\ itemIndex' = [itemIndex EXCEPT ![r] = @ + 1]

\* ------------------------------------------------------------- before the spawn
\* The history of a child process is kept until the next attempt begins, or
\* until its close if that comes later, and only while the process can still
\* emit an event or its timer can still fire.
Reaped(p) ==
    IF p.closed /\ p.timer # "armed"
    THEN [p EXCEPT !.kind = "gone", !.events = <<>>, !.argv = <<>>,
                   !.settledBy = "none", !.result = "", !.killed = FALSE]
    ELSE p

\* for (...; itemIndex < items.length; ...) { try { selectedFunction ... }
BeginItem(r) ==
    /\ pc[r] = "loop"
    /\ itemIndex[r] < itemCount[r]
    /\ created' = [created EXCEPT ![r] = <<>>]
    /\ proc' = [proc EXCEPT ![r] = [i \in DOMAIN @ |-> Reaped(@[i])]]
    /\ \E it \in ItemKinds :
         /\ item' = [item EXCEPT ![r] = it]
         /\ IF ~Truthy(it.params[<<"selectedFunction">>])
            THEN Raise(r, MsgNoFunction)
            ELSE /\ pc' = [pc EXCEPT ![r] = IF variant[r] = "file" THEN "readManifest"
                                            ELSE "accessManifest"]
                 /\ failure' = [failure EXCEPT ![r] = ""]
                 /\ UNCHANGED <<itemIndex, returnData, loc>>
    /\ UNCHANGED <<form, uiProps, script, variant, continueOnFail, itemCount, tempFiles, fs, now, faults,
                   interference>>

\* return [returnData] / return this.prepareOutputData(returnData); the history
\* of the last attempt ends with the run.
Return(r) ==
    /\ pc[r] = "loop"
    /\ itemIndex[r] = itemCount[r]
    /\ pc' = [pc EXCEPT ![r] = "returned"]
    /\ item' = [item EXCEPT ![r] = ItemNoFunction]
    /\ created' = [created EXCEPT ![r] = <<>>]
    /\ proc' = [proc EXCEPT ![r] = [i \in DOMAIN @ |-> Reaped(@[i])]]
    /\ UNCHANGED <<form, uiProps, script, variant, continueOnFail, itemCount, itemIndex, returnData, loc,
                   tempFiles, fs, now, faults, failure, interference>>

\* CLI-flag variant: await fs.access(manifestPath)
AccessManifest(r) ==
    /\ pc[r] = "accessManifest"
    /\ \E o \in ManifestAccess :
         /\ ChargeManifest(o)
         /\ IF o = "ok" THEN Goto(r, "readManifest", EmptyLoc)
            ELSE Raise(r, MsgManifestMissing)
    /\ UNCHANGED <<form, uiProps, script, variant, continueOnFail, itemCount, item, tempFiles, proc, fs, now,
                   created, interference>>

\* await readJson(manifestPath); manifest.functions.find(...)
\* A lookup in the manifest as it was on a machine with function f1, whatever
\* is on disk now, for comparison with FindFunction.
FindFunctionCached(m, value) ==
    LET hits == SelectSeq(<<FnOne>>, LAMBDA f : f.value = value)
    IN IF hits = <<>> THEN <<>> ELSE <<Head(hits)>>

\* manifest.functions.find(f => f.value === selectedFunctionValue): the first
\* entry with that value, as a sequence of at most one entry
FindFunction(m, value) ==
    LET hits == SelectSeq(m.functions, LAMBDA f : f.value = value)
    IN IF hits = <<>> THEN <<>> ELSE <<Head(hits)>>

\* if (!selectedFunction) throw ...; scriptPath = path.join(repoRoot,
\* selectedFunction.scriptFile)
Found(r, hit) ==
    IF manifest.state = "nofunctions" THEN Raise(r, MsgNoFind)
    ELSE IF hit = <<>> THEN Raise(r, MsgNotFound(variant[r]))
    ELSE /\ pc' = [pc EXCEPT ![r] = "accessScript"]
         /\ loc' = [loc EXCEPT ![r] = [EmptyLoc EXCEPT !.script = hit[1].scriptFile]]
         /\ UNCHANGED <<itemIndex, returnData, failure>>

\* const manifest = await readJson(manifestPath), and the find on it.  The
\* outcome "notfound" is a manifest that, when read, did not list the function.
ReadManifest(r) ==
    /\ pc[r] = "readManifest"
    /\ \E o \in ManifestRead :
         /\ ChargeManifest(o)
         /\ CASE o = "ok" -> Found(r, FindFunction(manifest, Item(r).params[<<"selectedFunction">>][2]))
              [] o = "unreadable" -> Raise(r, MsgReadJson("ffmpeg_node_manifest.json"))
              [] o = "notfound" -> Raise(r, MsgNotFound(variant[r]))
    /\ UNCHANGED <<form, uiProps, script, variant, continueOnFail, itemCount, item, tempFiles, proc, fs, now,
                   created, interference>>

\* await fs.access(scriptPath)
AccessScript(r) ==
    /\ pc[r] = "accessScript"
    /\ \E o \in Outcomes({"missing"}) :
         /\ Charge(o)
         /\ IF o = "ok"
            THEN Goto(r, IF variant[r] = "file" THEN "readSchema" ELSE "accessUi", EmptyLoc)
            ELSE Raise(r, MsgNoScript(variant[r], loc[r].script))
    /\ UNCHANGED <<form, uiProps, script, variant, continueOnFail, itemCount, item, tempFiles, proc, fs, now,
                   created, interference>>

\* new Promise(executor): spawn(...), the handlers, and (CLI-flag variant) the timer
Spawned(v, kind, argv) ==
    [NoProc EXCEPT !.state = IF kind = "nolaunch" THEN "unstarted" ELSE "running",
                   !.kind = kind,
                   !.timer = IF v = "flags" THEN "armed" ELSE "none",
                   !.promise = "pending",
                   !.argv = argv]

\* CLI-flag variant: try { await fs.access(uiStructurePath) ... } catch { warn }:
\* when the schema file is not there the process is spawned with no flags.
AccessUi(r) ==
    /\ pc[r] = "accessUi"
    /\ \E o \in Outcomes({"missing"}) :
         /\ Charge(o)
         /\ IF o = "ok"
            THEN /\ Goto(r, "loadUi", EmptyLoc)
                 /\ UNCHANGED proc
            ELSE /\ proc' = [proc EXCEPT ![r][itemIndex[r]] =
                               Spawned(variant[r], script.kind, <<loc[r].script>>)]
                 /\ Goto(r, "await", EmptyLoc)
    /\ UNCHANGED <<form, uiProps, script, variant, continueOnFail, itemCount, item, tempFiles, fs, now,
                   created, interference>>

\* CLI-flag variant: await readJson(uiStructurePath), the loop over the
\* properties, the catch that only warns, then the spawn with the flags built
\* so far.
LoadUi(r) ==
    /\ pc[r] = "loadUi"
    /\ \E o \in Outcomes({"unreadable"}) :
         /\ Charge(o)
         /\ proc' = [proc EXCEPT ![r][itemIndex[r]] =
                Spawned(variant[r], script.kind,
                        <<loc[r].script>> \o (IF o = "ok" THEN BuildArgs(Item(r), uiProps)
                                        ELSE <<>>))]
    /\ Goto(r, "await", EmptyLoc)
    /\ UNCHANGED <<form, uiProps, script, variant, continueOnFail, itemCount, item, tempFiles, fs, now,
                   created, interference>>

\* Parameter-file variant: the toggle loop up to its next await, or past its end
\* to the parameter file's path.
Bridge(r, pp, toggles) ==
    LET rest == SkipInactive(pp, toggles)
    IN IF rest = <<>>
       THEN \E t \in Clock :
              /\ now' = t
              /\ Goto(r, "writeParams",
                      [EmptyLoc EXCEPT !.pp = pp,
                                       !.path = ParamsTempPath(t, itemIndex[r])])
       ELSE LET name == pp[BinaryPropNameKey(Head(rest))][2]
            IN /\ UNCHANGED now
               /\ IF name \notin DOMAIN Item(r).binary
                  THEN Raise(r, MsgNoBinary(name))
                  ELSE Goto(r, "getBuffer", [EmptyLoc EXCEPT !.pp = pp, !.toggles = rest])

\* Parameter-file variant: await readJson(uiStructurePath), then the parameters
ReadSchema(r) ==
    /\ pc[r] = "readSchema"
    /\ \E o \in Outcomes({"unreadable"}) :
         /\ Charge(o)
         /\ IF o = "ok"
            THEN IF \E j \in 1..Len(uiProps) : uiProps[j] = JNull
                 THEN Raise(r, MsgNullProp) /\ UNCHANGED now
                 ELSE LET pp == ResolveParameters(Item(r), uiProps)
                      IN Bridge(r, pp, BinaryToggleKeys(pp, uiProps))
            ELSE Raise(r, MsgReadJson("f1.ui.json")) /\ UNCHANGED now
    /\ UNCHANGED <<form, uiProps, script, variant, continueOnFail, itemCount, item, tempFiles, proc, fs,
                   created, interference>>

\* await this.helpers.getBinaryDataBuffer(...); fileName; tempPath
GetBuffer(r) ==
    /\ pc[r] = "getBuffer"
    /\ LET name == loc[r].pp[BinaryPropNameKey(Head(loc[r].toggles))][2]
           info == Item(r).binary[name]
       IN \E t \in Clock :
            /\ now' = t
            /\ Goto(r, "writeBin",
                    [loc[r] EXCEPT !.path = BinTempPath(t, FileNameOf(info, name))])
    /\ UNCHANGED <<form, uiProps, script, variant, continueOnFail, itemCount, item, tempFiles, proc, fs, faults,
                   created, interference>>

\* fs.writeFile(path, content) by run r: the file as it is afterwards.  "ok"
\* writes it all, "partial" creates or truncates it and then fails.
WriteFile(dir, path, content, r, o) ==
    IF o = "ok" THEN (path :> [content |-> content, owner |-> r]) @@ dir
    ELSE (path :> [content |-> Truncated, owner |-> r]) @@ dir

\* history: run r replaces or removes the file at path, which another run made
Interferes(dir, path, r, o) ==
    IF path \in DOMAIN dir /\ dir[path].owner # r
    THEN {[by |-> r, of |-> dir[path].owner, path |-> path]}
    ELSE {}

\* history: one more file created at path
Counted(bag, path) ==
    IF path \in DOMAIN bag THEN [bag EXCEPT ![path] = @ + 1] ELSE (path :> 1) @@ bag

\* tempFiles.push(path), after the awaited writeFile
Registered(files, path, o) == IF o = "ok" THEN Append(files, path) ELSE files

WriteEffects(r, content, o) ==
    /\ Charge(o)
    /\ fs' = WriteFile(fs, loc[r].path, content, r, o)
    /\ tempFiles' = [tempFiles EXCEPT ![r] = Registered(@, loc[r].path, o)]
    /\ created' = [created EXCEPT ![r] = Counted(@, loc[r].path)]
    /\ interference' = interference \cup Interferes(fs, loc[r].path, r, o)

\* await fs.writeFile(tempPath, binaryBuffer); push; rewrite the parameter
WriteBin(r) ==
    /\ pc[r] = "writeBin"
    /\ LET key == BinaryPropNameKey(Head(loc[r].toggles))
           info == Item(r).binary[loc[r].pp[key][2]]
       IN \E o \in Outcomes({"partial"}) :
            /\ WriteEffects(r, Bytes(info.bytes), o)
            /\ IF o = "ok"
               THEN Bridge(r, [loc[r].pp EXCEPT ![key] = Str(loc[r].path)],
                           Tail(loc[r].toggles))
               ELSE Raise(r, MsgWriteFailed) /\ UNCHANGED now
    /\ UNCHANGED <<form, uiProps, script, variant, continueOnFail, itemCount, item, proc>>

\* await fs.writeFile(paramsPath, JSON.stringify(...)); push; spawn
WriteParams(r) ==
    /\ pc[r] = "writeParams"
    /\ \E o \in Outcomes({"partial"}) :
         /\ WriteEffects(r, JSONStringify(loc[r].pp), o)
         /\ IF o = "ok"
            THEN /\ proc' = [proc EXCEPT ![r][itemIndex[r]] =
                            Spawned(variant[r], script.kind, <<loc[r].script, loc[r].path>>)]
                 /\ Goto(r, "await", EmptyLoc)
            ELSE Raise(r, MsgWriteFailed) /\ UNCHANGED proc
    /\ UNCHANGED <<form, uiProps, script, variant, continueOnFail, itemCount, item, now>>

\* ------------------------------------------------------------- the child process
\* A promise that takes every settlement, for comparison with Settle.
SettleAgain(p, by) == [p EXCEPT !.promise = "settled", !.settledBy = by]

\* resolve(...) / reject(...): a promise keeps its first settlement
Settle(p, by) ==
    IF p.promise = "pending"
    THEN [p EXCEPT !.promise = "settled", !.settledBy = by]
    ELSE p

\* How a process can close: [code, stdout, stderr].  A process that was sent
\* the kill signal closes with code null, unless it had exited already.
CloseResults(p) ==
    IF script.kind = "nolaunch"
    THEN {[code |-> script.code, stdout |-> <<>>, stderr |-> ""]}
    ELSE (IF p.killed THEN {[code |-> "null", stdout |-> <<>>, stderr |-> ""]} ELSE {})
         \cup (IF script.kind = "exits"
               THEN {[code |-> script.code, stdout |-> script.stdout,
                      stderr |-> script.stderr]}
               ELSE {})

CanClose(p) ==
    /\ p.state \in {"running", "unstarted"}
    /\ ~p.closed
    /\ p.kind = "nolaunch" => \E j \in 1..Len(p.events) : p.events[j] = "error"

\* After `await new Promise(...)` resolved: decode, then push or prepare.
Resolved(r, scriptResult) ==
    LET json == DecodeResult(scriptResult)
        rec == [json |-> json, pairedItem |-> [item |-> itemIndex[r]]]
    IN IF variant[r] = "flags" THEN Push(r, rec)
       ELSE IF json = JNull THEN Raise(r, MsgNullResult)
       ELSE IF HasBinaryResult(json) THEN Goto(r, "prepBinary", [EmptyLoc EXCEPT !.json = json])
       ELSE Push(r, rec)

\* The event name the history keeps for a close
CloseEvent(res) == "close:" \o res.code

\* pythonProcess.on('close', ...): both handlers of the CLI-flag variant, then
\* the continuation of the await if this close settled the promise.
ProcClose(r, i) ==
    /\ i \in DOMAIN proc[r]
    /\ CanClose(proc[r][i])
    /\ \E res \in CloseResults(proc[r][i]) :
         LET p == proc[r][i]
             q == [Settle(p, CloseEvent(res)) EXCEPT
                     !.state = IF p.state = "running" THEN "exited" ELSE @,
                     !.closed = TRUE,
                     !.timer = IF @ = "armed" THEN "cleared" ELSE @,
                     !.events = Append(@, CloseEvent(res)),
                     !.result = IF p.promise = "pending" /\ res.code = "0"
                                THEN Trim(res.stdout) ELSE @]
         IN /\ proc' = [proc EXCEPT ![r][i] = IF i < itemIndex[r] THEN Reaped(q) ELSE q]
            /\ IF p.promise # "pending" THEN UNCHANGED ctl
               ELSE IF res.code = "0" THEN Resolved(r, Trim(res.stdout))
               ELSE Raise(r, MsgScriptFailed(variant[r], res.code, res.stderr))
    /\ UNCHANGED <<form, uiProps, script, variant, continueOnFail, itemCount, item, tempFiles, fs, now, faults,
                   created, interference>>

\* pythonProcess.on('error', ...): a spawn that fails emits 'error' once
ProcError(r, i) ==
    /\ i \in DOMAIN proc[r]
    /\ proc[r][i].kind = "nolaunch"
    /\ ~proc[r][i].closed
    /\ \A j \in 1..Len(proc[r][i].events) : proc[r][i].events[j] # "error"
    /\ LET p == proc[r][i]
       IN /\ proc' = [proc EXCEPT ![r][i] =
                        [Settle(p, "error") EXCEPT !.events = Append(@, "error")]]
          /\ IF p.promise # "pending" THEN UNCHANGED ctl ELSE Raise(r, MsgLaunch(variant[r]))
    /\ UNCHANGED <<form, uiProps, script, variant, continueOnFail, itemCount, item, tempFiles, fs, now, faults,
                   created, interference>>

\* pythonProcess.kill(): the signal is sent; the process ends, if it runs, at
\* its later close
Kill(p) == [p EXCEPT !.killed = @ \/ (p.state = "running")]

\* CLI-flag variant: the setTimeout callback
TimeoutFires(r, i) ==
    /\ i \in DOMAIN proc[r]
    /\ proc[r][i].timer = "armed"
    /\ LET p == proc[r][i]
       IN /\ proc' = [proc EXCEPT ![r][i] =
                        [Settle(Kill(p), "timeout") EXCEPT
                           !.timer = "fired", !.events = Append(@, "timeout")]]
          /\ IF p.promise # "pending" THEN UNCHANGED ctl ELSE Raise(r, MsgTimeout)
    /\ UNCHANGED <<form, uiProps, script, variant, continueOnFail, itemCount, item, tempFiles, fs, now, faults,
                   created, interference>>

\* ------------------------------------------------------------- after the process
\* Parameter-file variant: await this.helpers.prepareBinaryData(...); push
PrepareBinary(r) ==
    /\ pc[r] = "prepBinary"
    /\ Push(r, [json |-> JObject(<<>>),
                binary |-> [data |-> [bytes |-> Base64Decode(loc[r].json.fields.binary_data),
                                      fileName |-> loc[r].json.fields.file_name]],
                pairedItem |-> [item |-> itemIndex[r]]])
    /\ UNCHANGED <<form, uiProps, script, variant, continueOnFail, itemCount, item, tempFiles, proc, fs, now, faults,
                   created, interference>>

\* fs.unlink(path): the directory afterwards
Unlinked(dir, path) == [q \in DOMAIN dir \ {path} |-> dir[q]]

\* A catch clause that lets the unlink error escape the finally block, for
\* comparison with UnlinkCatch.
UnlinkCatchEscapes(r) ==
    /\ pc' = [pc EXCEPT ![r] = "thrown"]
    /\ failure' = [failure EXCEPT ![r] = "EBUSY: resource busy or locked, unlink"]
    /\ UNCHANGED <<itemIndex, returnData, loc>>

\* finally: catch (e) { console.error(...) } around one unlink: the loop goes on
UnlinkCatch(r) == Goto(r, "finally", [loc[r] EXCEPT !.k = @ + 1])

\* finally: one turn of `for (const filePath of tempFiles)`: await fs.unlink in
\* its own try/catch.  A path that is gone already fails with ENOENT.
Unlink(r) ==
    /\ pc[r] = "finally"
    /\ loc[r].k <= Len(tempFiles[r])
    /\ LET path == tempFiles[r][loc[r].k]
       IN IF path \notin DOMAIN fs
          THEN UnlinkCatch(r) /\ UNCHANGED <<fs, faults, interference>>
          ELSE \E o \in Outcomes({"busy"}) :
                 /\ Charge(o)
                 /\ fs' = IF o = "ok" THEN Unlinked(fs, path) ELSE fs
                 /\ interference' = interference \cup
                        (IF o = "ok" /\ fs[path].owner # r
                         THEN {[by |-> r, of |-> fs[path].owner, path |-> path]}
                         ELSE {})
                 /\ IF o = "ok" THEN Goto(r, "finally", [loc[r] EXCEPT !.k = @ + 1])
                    ELSE UnlinkCatch(r)
    /\ UNCHANGED <<form, uiProps, script, variant, continueOnFail, itemCount, item, tempFiles, proc, now,
                   created>>

\* finally: tempFiles = []; then the pending continue or throw
EndAttempt(r) ==
    /\ pc[r] = "finally"
    /\ loc[r].k > Len(tempFiles[r])
    /\ tempFiles' = [tempFiles EXCEPT ![r] = <<>>]
    /\ loc' = [loc EXCEPT ![r] = EmptyLoc]
    /\ IF loc[r].rethrow
       THEN pc' = [pc EXCEPT ![r] = "thrown"] /\ UNCHANGED itemIndex
       ELSE /\ pc' = [pc EXCEPT ![r] = "loop"]
            /\ itemIndex' = [itemIndex EXCEPT ![r] = @ + 1]
    /\ UNCHANGED <<form, uiProps, script, variant, continueOnFail, itemCount, item, returnData, proc, fs, now, faults,
                   failure, created, interference>>

\* ------------------------------------------------------------- the form builder
\* Continue the loop over manifest.functions at position i.
ToFunction(i) ==
    LET j == NextFunction(manifest.functions, i)
    IN build' = IF j = 0 THEN [pc |-> "done", fi |-> 0] ELSE [pc |-> "accessUi", fi |-> j]

\* try { await fs.access(manifestPath) } catch { console.warn(...); return }
BuildAccessManifest ==
    /\ build.pc = "accessManifest"
    /\ build' = IF manifest.state = "absent" THEN [pc |-> "done", fi |-> 0]
                ELSE [build EXCEPT !.pc = "readManifest"]
    /\ UNCHANGED <<manifest, schemas, registry, exec>>

\* const manifest = await readJson(manifestPath); the functions check; the
\* loop up to the first await fs.access(uiStructurePath)
BuildReadManifest ==
    /\ build.pc = "readManifest"
    /\ IF manifest.state # "ok" THEN build' = [pc |-> "done", fi |-> 0]
       ELSE ToFunction(1)
    /\ UNCHANGED <<manifest, schemas, registry, exec>>

\* try { await fs.access(uiStructurePath) ... } catch { console.error(...) }
BuildAccessUi ==
    /\ build.pc = "accessUi"
    /\ IF schemas[manifest.functions[build.fi].uiFile].state = "missing"
       THEN ToFunction(build.fi + 1)
       ELSE build' = [build EXCEPT !.pc = "readUi"]
    /\ UNCHANGED <<manifest, schemas, registry, exec>>

\* const uiConfig = await readJson(uiStructurePath); the loop over its
\* properties; on to the next function
BuildReadUi ==
    /\ build.pc = "readUi"
    /\ LET func == manifest.functions[build.fi]
           file == schemas[func.uiFile]
       IN registry' = IF file.state = "ok"
                      THEN registry \o Pushed(file.properties, func.value)
                      ELSE registry
    /\ ToFunction(build.fi + 1)
    /\ UNCHANGED <<manifest, schemas, exec>>

\* ------------------------------------------------------------- the files on disk
\* What the manifest file can be rewritten to while the node lives: the
\* function f1 with its script, with its script renamed, or no function f1.
ManifestsOfChange == {ManifestOk(<<FnOne>>), ManifestOk(<<FnOneMoved>>), ManifestOk(<<FnTwo>>)}

\* Somebody replaces the manifest file.
ManifestChanges ==
    /\ manifest \in ManifestsOfChange
    /\ \E m \in ManifestsOfChange \ {manifest} : manifest' = m
    /\ UNCHANGED <<schemas, build, registry, exec>>

\* ------------------------------------------------------------- specifications
ItemIndexes == 0..(MaxItems - 1)

InitCommon ==
    /\ pc = [r \in Runs |-> IF variant[r] = "off" THEN "off" ELSE "loop"]
    /\ itemIndex = [r \in Runs |-> 0]
    /\ returnData = [r \in Runs |-> <<>>]
    /\ loc = [r \in Runs |-> EmptyLoc]
    /\ tempFiles = [r \in Runs |-> <<>>]
    /\ item = [r \in Runs |-> ItemNoFunction]
    /\ proc = [r \in Runs |-> [i \in 0..(itemCount[r] - 1) |-> NoProc]]
    /\ fs = <<>>
    /\ now = 0
    /\ failure = [r \in Runs |-> ""]
    /\ created = [r \in Runs |-> <<>>]
    /\ interference = {}

\* One run of execute, of either variant, on any batch.
InitOneRun ==
    /\ \E v \in {"flags", "file"}, cof \in BOOLEAN, n \in 0..MaxItems :
         /\ variant = [r \in Runs |-> IF r = "A" THEN v ELSE "off"]
         /\ continueOnFail = [r \in Runs |-> r = "A" /\ cof]
         /\ itemCount = [r \in Runs |-> IF r = "A" THEN n ELSE 0]
    /\ uiProps = UiProperties
    /\ InitCommon

\* The form has been built from the files of the machine.
InitBuilt ==
    /\ manifest = ManifestOfRun
    /\ schemas = SchemasFor(uiProps)
    /\ build = [pc |-> "done", fi |-> 0]
    /\ registry = <<SelectedFunctionProperty>>
                    \o Pushed(SchemasFor(uiProps)["f1.ui.json"].properties, "f1")

Init == InitOneRun /\ InitBuilt /\ script \in ScriptsBasic /\ faults = 0

\* The same on a machine whose file system never fails.
InitReliable == InitOneRun /\ InitBuilt /\ script \in Scripts /\ faults = MaxFaults

\* Two runs of the parameter-file variant, each on a batch of one item, on a
\* machine whose file system never fails.
InitTwoRuns ==
    /\ variant = [r \in Runs |-> "file"]
    /\ continueOnFail \in [Runs -> BOOLEAN]
    /\ itemCount = [r \in Runs |-> 1]
    /\ script \in Scripts
    /\ faults = MaxFaults
    /\ uiProps = UiProperties
    /\ InitCommon
    /\ InitBuilt

Next ==
    \E r \in Runs :
        \/ BeginItem(r)
        \/ Return(r)
        \/ AccessManifest(r)
        \/ ReadManifest(r)
        \/ AccessScript(r)
        \/ AccessUi(r)
        \/ LoadUi(r)
        \/ ReadSchema(r)
        \/ GetBuffer(r)
        \/ WriteBin(r)
        \/ WriteParams(r)
        \/ PrepareBinary(r)
        \/ Unlink(r)
        \/ EndAttempt(r)
        \/ \E i \in ItemIndexes : ProcClose(r, i)
        \/ \E i \in ItemIndexes : ProcError(r, i)
        \/ \E i \in ItemIndexes : TimeoutFires(r, i)

Spec == Init /\ [][Next]_vars

SpecReliable == InitReliable /\ [][Next]_vars

\* The steps of the parameter-file variant.
NextFile ==
    \E r \in Runs :
        \/ BeginItem(r)
        \/ Return(r)
        \/ ReadManifest(r)
        \/ AccessScript(r)
        \/ ReadSchema(r)
        \/ GetBuffer(r)
        \/ WriteBin(r)
        \/ WriteParams(r)
        \/ PrepareBinary(r)
        \/ Unlink(r)
        \/ EndAttempt(r)
        \/ \E i \in ItemIndexes : ProcClose(r, i)
        \/ \E i \in ItemIndexes : ProcError(r, i)

SpecTwoRuns == InitTwoRuns /\ [][NextFile]_vars

\* The form builder alone, on any manifest and schema files.
InitForm ==
    /\ manifest \in Manifests
    /\ schemas \in {("f1.ui.json" :> a) @@ ("f2.ui.json" :> b) :
                        a \in SchemaFiles, b \in SchemaFilesOther}
    /\ build = [pc |-> "accessManifest", fi |-> 0]
    /\ registry = <<SelectedFunctionProperty>>
    /\ variant = [r \in Runs |-> "off"]
    /\ continueOnFail = [r \in Runs |-> FALSE]
    /\ itemCount = [r \in Runs |-> 0]
    /\ script \in {sc \in Scripts : sc.kind = "hangs"}
    /\ faults = MaxFaults
    /\ uiProps = UiProperties
    /\ InitCommon

NextForm ==
    \/ BuildAccessManifest
    \/ BuildReadManifest
    \/ BuildAccessUi
    \/ BuildReadUi

SpecForm == InitForm /\ [][NextForm]_vars

\* One run of execute, of either variant, on a batch of one item, for any
\* schema of up to MaxProps entries, on a machine whose file system never
\* fails.
InitSchema ==
    /\ uiProps \in SeqsUpTo(UiEntries, MaxProps)
    /\ \E v \in {"flags", "file"}, cof \in BOOLEAN :
         /\ variant = [r \in Runs |-> IF r = "A" THEN v ELSE "off"]
         /\ continueOnFail = [r \in Runs |-> r = "A" /\ cof]
    /\ itemCount = [r \in Runs |-> IF r = "A" THEN 1 ELSE 0]
    /\ script \in {sc \in Scripts : sc.kind = "nolaunch" \/ sc.stdout = <<"null">>}
    /\ faults = MaxFaults
    /\ InitCommon
    /\ InitBuilt

NextSchema ==
    \E r \in Runs :
        \/ BeginItem(r)
        \/ Return(r)
        \/ AccessManifest(r)
        \/ ReadManifest(r)
        \/ AccessScript(r)
        \/ AccessUi(r)
        \/ LoadUi(r)
        \/ ReadSchema(r)
        \/ GetBuffer(r)
        \/ WriteBin(r)
        \/ WriteParams(r)
        \/ Unlink(r)
        \/ EndAttempt(r)
        \/ \E i \in ItemIndexes : ProcClose(r, i)
        \/ \E i \in ItemIndexes : ProcError(r, i)
        \/ \E i \in ItemIndexes : TimeoutFires(r, i)

SpecSchema == InitSchema /\ [][NextSchema]_vars

\* One run of execute, of either variant, on a node whose form was built from
\* a manifest with function f1, while the manifest file is being replaced; on
\* a machine whose file system never fails.
InitChange ==
    /\ InitOneRun
    /\ InitBuilt
    /\ script \in {sc \in Scripts :
                     sc.kind = "nolaunch"
                     \/ Trim(sc.stdout) = "{\"binary_data\":\"YWJj\",\"file_name\":\"x.bin\"}"}
    /\ faults = MaxFaults

NextChange == ManifestChanges \/ Next

SpecChange == InitChange /\ [][NextChange]_vars

\* A node on a machine without manifest file: the form builder and one run of
\* execute, of either variant.
InitAbsent ==
    /\ manifest = ManifestAbsent
    /\ schemas = SchemasOfRun
    /\ build = [pc |-> "accessManifest", fi |-> 0]
    /\ registry = <<SelectedFunctionProperty>>
    /\ InitOneRun
    /\ script \in {sc \in Scripts : sc.kind = "exits" /\ sc.code = "0"}
    /\ faults = MaxFaults

NextAbsent ==
    \/ BuildAccessManifest
    \/ \E r \in Runs :
          \/ BeginItem(r)
          \/ AccessManifest(r)
          \/ ReadManifest(r)
          \/ EndAttempt(r)
          \/ Return(r)

SpecAbsent == InitAbsent /\ [][NextAbsent]_vars

\* A node from its construction on: the form builder, and one run of execute
\* of either variant, which the host starts when it will.
InitNode ==
    /\ manifest = ManifestOfRun
    /\ schemas = SchemasOfRun
    /\ build = [pc |-> "accessManifest", fi |-> 0]
    /\ registry = <<SelectedFunctionProperty>>
    /\ InitOneRun
    /\ script \in ScriptsBasic
    /\ faults = 0

NextNode == NextForm \/ Next

SpecNode == InitNode /\ [][NextNode]_vars

\* ------------------------------------------------------------- properties
\* The attempts of run r whose record, if any, has been pushed.
Recorded(r) == IF pc[r] = "finally" THEN itemIndex[r] + 1 ELSE itemIndex[r]

\* The attempt of run r that is under way or was completed last.
LastAttempt(r) == IF pc[r] \in {"loop", "returned"} THEN itemIndex[r] - 1 ELSE itemIndex[r]

\* The current attempt of run r is over: its record is pushed or its error caught.
AttemptOver(r) == pc[r] \in {"finally", "loop", "returned", "thrown"}

IsErrorRecord(rec) == rec.json.jtype = "object" /\ "error" \in DOMAIN rec.json.fields

\* C1, the state part: under continueOnFail run r holds one record per finished
\* attempt, the record at position i paired with item i; the record of an
\* attempt that failed is {error: message}, that of one that did not is not an
\* error record; what is returned has one record per input item.
C1_Records(r) ==
    LET n == Len(returnData[r])
    IN /\ n = Recorded(r)
       /\ \A j \in 1..n : returnData[r][j].pairedItem.item = j - 1
       /\ pc[r] = "returned" => n = itemCount[r]
       /\ (n > 0 /\ AttemptOver(r)) =>
             IF failure[r] # "" THEN returnData[r][n] = ErrorRecord(failure[r], n - 1)
             ELSE ~IsErrorRecord(returnData[r][n])

\* C1: with continueOnFail true, every step leaves the run with exactly one
\* record per finished item, each at its own position with pairedItem.item equal
\* to that position, a failing item contributing {error: message}; and no step,
\* a later item's failure included, changes a record pushed earlier.
C1_IndexPreserved ==
    [][\A r \in Runs :
          continueOnFail[r] =>
              /\ C1_Records(r)'
              /\ Len(returnData'[r]) >= Len(returnData[r])
              /\ SubSeq(returnData'[r], 1, Len(returnData[r])) = returnData[r]]_vars

\* A batch of two returned under continueOnFail, the first item failed, the
\* second did not.
C1_Witness ==
    \E r \in Runs :
        /\ continueOnFail[r] /\ pc[r] = "returned" /\ itemCount[r] = 2
        /\ Len(returnData[r]) = 2
        /\ IsErrorRecord(returnData[r][1]) /\ ~IsErrorRecord(returnData[r][2])

\* C2: with continueOnFail false, once an item has failed the run is on its way
\* out through the throw (the finally block, then thrown): it is at the failed
\* item still, it has not returned, it pushed no record for the failure, and no
\* process exists for any later item.
C2_FirstFailureThrows ==
    \A r \in Runs :
        (variant[r] # "off" /\ ~continueOnFail[r]) =>
            /\ pc[r] = "thrown" => failure[r] # ""
            /\ failure[r] # "" =>
                  /\ \/ pc[r] = "thrown"
                     \/ pc[r] = "finally" /\ variant[r] = "file" /\ loc[r].rethrow
                  /\ Len(returnData[r]) = itemIndex[r]
                  /\ \A j \in 1..Len(returnData[r]) : ~IsErrorRecord(returnData[r][j])
                  /\ \A i \in DOMAIN proc[r] : i > itemIndex[r] => proc[r][i] = NoProc

\* A batch of two whose first item failed without continueOnFail: thrown, the
\* second item untouched.
C2_Witness ==
    \E r \in Runs :
        /\ ~continueOnFail[r] /\ pc[r] = "thrown" /\ itemCount[r] = 2
        /\ itemIndex[r] = 0 /\ proc[r][1] = NoProc /\ returnData[r] = <<>>

\* C3: in the parameter-file variant, when an attempt has ended (the next item
\* may start, or execute has returned or thrown) no file that the attempt
\* created is left in the temp directory.
C3_TempFilesDeleted ==
    \A r \in Runs :
        (variant[r] = "file" /\ pc[r] \in {"loop", "returned", "thrown"}) =>
            \A path \in DOMAIN created[r] : path \notin DOMAIN fs

\* An attempt that created two files has ended and left none of them.
C3_Witness ==
    \E r \in Runs :
        /\ variant[r] = "file" /\ pc[r] \in {"loop", "returned", "thrown"}
        /\ Cardinality(DOMAIN created[r]) = 2
        /\ \A path \in DOMAIN created[r] : path \notin DOMAIN fs

\* C4: in both variants, a run that awaits the process of its current item can
\* always be resumed by an event of that process: its close, its launch error,
\* or the timeout that kills it.
C4_InvocationSettles ==
    \A r \in Runs :
        pc[r] = "await" =>
            ENABLED (\/ ProcClose(r, itemIndex[r])
                     \/ ProcError(r, itemIndex[r])
                     \/ TimeoutFires(r, itemIndex[r]))

\* The timeout of a process that never exits has fired and failed its item.
C4_Witness ==
    \E r \in Runs :
        /\ script.kind = "hangs" /\ failure[r] = MsgTimeout
        /\ proc[r][LastAttempt(r)].timer = "fired"

\* C5: a process whose invocation has reported its outcome (its promise is
\* settled) is not running any more.
C5_StoppedWhenReported ==
    \A r \in Runs : \A i \in DOMAIN proc[r] :
        proc[r][i].promise = "settled" => proc[r][i].state # "running"

\* An invocation has reported the exit of its process.
C5_Witness ==
    \E r \in Runs : \E i \in DOMAIN proc[r] :
        proc[r][i].promise = "settled" /\ proc[r][i].state = "exited"

\* The message an item fails with when event `by` settles its invocation, ""
\* for the close that resolves it.
OutcomeOf(r, by) ==
    CASE by = "error" -> {MsgLaunch(variant[r])}
      [] by = "timeout" -> {MsgTimeout}
      [] by = "close:0" -> {"", MsgNullResult}
      [] OTHER -> {MsgScriptFailed(variant[r], script.code, script.stderr),
                   MsgScriptFailed(variant[r], "null", "")}

\* C6: whatever events a process has emitted, its invocation is settled by the
\* first of them and by that one only: the outcome of the item is the one of
\* that event, also after later events, and the item has at most one record.
C6_OneOutcome ==
    \A r \in Runs :
        /\ \A i \in DOMAIN proc[r] :
              LET p == proc[r][i]
              IN /\ (p.events # <<>> /\ p.kind # "gone") =>
                        /\ p.promise = "settled"
                        /\ p.settledBy = p.events[1]
                 /\ (p.promise = "settled" /\ p.kind # "gone" /\ i = LastAttempt(r)) =>
                        failure[r] \in OutcomeOf(r, p.settledBy)
                 /\ p.promise = "pending" => (i = itemIndex[r] /\ pc[r] = "await")
        /\ \A i \in DOMAIN proc[r] :
              Cardinality({j \in 1..Len(returnData[r]) :
                              returnData[r][j].pairedItem.item = i}) <= 1

\* A process has emitted three events (timeout, launch error, close) after the
\* first of which its item failed.
C6_Witness ==
    \E r \in Runs : \E i \in DOMAIN proc[r] :
        /\ Len(proc[r][i].events) = 3
        /\ proc[r][i].events[1] # proc[r][i].events[2]
        /\ failure[r] \in OutcomeOf(r, proc[r][i].events[1])

\* C7: in the parameter-file variant, a failing unlink leaves the records, the
\* error of the attempt and the pending continue or throw as they were and
\* moves on to the next temp file; an unlink that succeeds removes its file;
\* and the finally block is left only after every temp file had its turn.
C7_UnlinkFailureIgnored ==
    [][\A r \in Runs :
          pc[r] = "finally" =>
              /\ returnData'[r] = returnData[r]
              /\ failure'[r] = failure[r]
              /\ tempFiles'[r] # tempFiles[r] => pc'[r] # "finally"
              /\ (pc'[r] = "finally" /\ <<loc[r], fs, faults>>' # <<loc[r], fs, faults>>) =>
                    /\ loc'[r] = [loc[r] EXCEPT !.k = @ + 1]
                    /\ faults' = faults => tempFiles[r][loc[r].k] \notin DOMAIN fs'
              /\ pc'[r] # "finally" =>
                    /\ loc[r].k > Len(tempFiles[r])
                    /\ pc'[r] = IF loc[r].rethrow THEN "thrown" ELSE "loop"
                    /\ ~loc[r].rethrow => itemIndex'[r] = itemIndex[r] + 1]_vars

\* The unlink of the first of two temp files failed, the second file was
\* unlinked all the same, and the record of the item is in place.
C7_Witness ==
    \E r \in Runs :
        /\ pc[r] = "finally" /\ Len(tempFiles[r]) = 2 /\ loc[r].k = 3
        /\ tempFiles[r][1] \in DOMAIN fs /\ tempFiles[r][2] \notin DOMAIN fs
        /\ failure[r] = "" /\ Len(returnData[r]) = itemIndex[r] + 1

\* The toggles XIsBinary of an item that are true and whose XBinaryPropertyName
\* names an attachment the item has.
BridgedToggles(it) ==
    LET pp == ResolveParameters(it, UiProperties)
    IN {tk \in DOMAIN pp :
          /\ EndsWith(tk, "IsBinary")
          /\ pp[tk] = Bool(TRUE)
          /\ SubSeq(tk, 1, Len(tk) - 1) \o <<"BinaryPropertyName">> \in DOMAIN pp
          /\ pp[SubSeq(tk, 1, Len(tk) - 1) \o <<"BinaryPropertyName">>][2]
                \in DOMAIN it.binary}

\* The paths a binary-input file of the item can have been given.
BinPathsOf(it) ==
    {BinTempPath(t, FileNameOf(it.binary[k], k)) : t \in 0..MaxNow, k \in DOMAIN it.binary}

\* C8: in the parameter-file variant, while the process of an item runs, the
\* parameter file it was handed maps, for every bridged toggle X of the item,
\* XBinaryPropertyName to the path of a file holding the attachment's bytes and
\* XIsBinary to true; and once the attempt is over none of the item's
\* binary-input files exists.
C8_BinaryRoundTrip ==
    \A r \in Runs :
        variant[r] = "file" =>
            /\ (pc[r] = "await" /\ proc[r][itemIndex[r]].state = "running") =>
                  LET pf == proc[r][itemIndex[r]].argv[2]
                      pp == ResolveParameters(Item(r), UiProperties)
                  IN /\ pf \in DOMAIN fs
                     /\ fs[pf].content.type = "json"
                     /\ \A tk \in BridgedToggles(Item(r)) :
                           LET key == SubSeq(tk, 1, Len(tk) - 1) \o <<"BinaryPropertyName">>
                               doc == fs[pf].content.doc
                           IN /\ doc[tk] = Bool(TRUE)
                              /\ doc[key][2] \in DOMAIN fs
                              /\ fs[doc[key][2]].content =
                                    Bytes(Item(r).binary[pp[key][2]].bytes)
            /\ pc[r] \in {"loop", "returned", "thrown"} =>
                  \A path \in DOMAIN created[r] \cap BinPathsOf(Item(r)) :
                      path \notin DOMAIN fs

\* The process of an item with one bridged attachment runs on a parameter file
\* that points to a file with the attachment's bytes.
C8_Witness ==
    \E r \in Runs :
        /\ variant[r] = "file" /\ pc[r] = "await" /\ Item(r) = ItemOneBin
        /\ proc[r][itemIndex[r]].state = "running"
        /\ LET doc == fs[proc[r][itemIndex[r]].argv[2]].content.doc
           IN fs[doc[<<"a", "BinaryPropertyName">>][2]].content = Bytes("B1")

\* C9: the temp files that one attempt of the parameter-file variant creates
\* have distinct paths, whatever Date.now() returns: no path is created twice.
C9_DistinctPaths ==
    \A r \in Runs : \A path \in DOMAIN created[r] : created[r][path] = 1

\* An attempt has created three files under three paths.
C9_Witness ==
    \E r \in Runs :
        /\ Cardinality(DOMAIN created[r]) = 3
        /\ \A path \in DOMAIN created[r] : created[r][path] = 1

\* C10: of two interleaved runs of the parameter-file variant, none overwrites
\* or deletes a file the other created, and the parameter file of a running
\* process exists and was written by the run that spawned the process.
C10_ExclusiveOwnership ==
    /\ interference = {}
    /\ \A r \in Runs : \A i \in DOMAIN proc[r] :
          proc[r][i].state = "running" =>
              /\ proc[r][i].argv[2] \in DOMAIN fs
              /\ fs[proc[r][i].argv[2]].owner = r

\* The processes of both runs run at the same time, each on its own
\* parameter file.
C10_Witness ==
    /\ \A r \in Runs : proc[r][0].state = "running"
    /\ proc["A"][0].argv[2] # proc["B"][0].argv[2]
    /\ \A r \in Runs : fs[proc[r][0].argv[2]].owner = r
\* The errors of the steps that come before the spawn.
PreSpawnFailures(r) ==
    {MsgNoFunction, MsgManifestMissing, MsgReadJson("ffmpeg_node_manifest.json"),
     MsgNotFound(variant[r]), MsgNoScript(variant[r], "f1.py"), MsgReadJson("f1.ui.json"),
     MsgWriteFailed}
    \cup {MsgNoBinary(k) : k \in {"data", "data2", "nope"}}

\* The item turns a binary toggle on and names an attachment it does not have.
MissingAttachment(it) ==
    \E tk \in DOMAIN it.params :
        /\ EndsWith(tk, "IsBinary")
        /\ it.params[tk] = Bool(TRUE)
        /\ SubSeq(tk, 1, Len(tk) - 1) \o <<"BinaryPropertyName">> \in DOMAIN it.params
        /\ Truthy(it.params[SubSeq(tk, 1, Len(tk) - 1) \o <<"BinaryPropertyName">>])
        /\ it.params[SubSeq(tk, 1, Len(tk) - 1) \o <<"BinaryPropertyName">>][2]
              \notin DOMAIN it.binary

\* C11: in both variants the process of an attempt exists only if no step
\* before the spawn failed (function found in the manifest, script file found)
\* and every binary toggle of the item that is on names an attachment the item
\* has; an attempt that fails before the spawn has no process; an attempt that
\* is over without any failure has had its process.
C11_SpawnOnlyWhenResolved ==
    \A r \in Runs :
        (variant[r] # "off" /\ LastAttempt(r) \in DOMAIN proc[r]) =>
            LET spawned == proc[r][LastAttempt(r)] # NoProc
            IN /\ spawned => failure[r] \notin PreSpawnFailures(r)
               /\ spawned => ~MissingAttachment(Item(r))
               /\ failure[r] \in PreSpawnFailures(r) => ~spawned
               /\ (AttemptOver(r) /\ failure[r] = "") => spawned

\* An item that names a missing attachment has failed in the parameter-file
\* variant and no process was spawned for it.
C11_Witness ==
    \E r \in Runs :
        /\ variant[r] = "file" /\ failure[r] = MsgNoBinary("nope")
        /\ proc[r][LastAttempt(r)] = NoProc
\* The exit code that a close event of the history names.
CodeOf(ev) == CHOOSE c \in {"0", "1", "-2", "null"} : ev = "close:" \o c

\* The failures of the invocation step itself.
InvocationFailures ==
    {"Failed to start script: spawn python3 ENOENT",
     "Failed to start script: spawn python ENOENT", MsgTimeout}
    \cup {"Script failed: " \o t : t \in Stderrs \ {""}}
    \cup {"Script failed: " \o w \o c :
             w \in {"Script exited with code ", "Exited with code "},
             c \in {"0", "1", "-2", "null"}}

\* C12: the invocation of an attempt succeeds, with the trimmed stdout as its
\* result, exactly when the first event of its process is a close with exit
\* code 0; when the first event is a close with another code the item fails
\* with "Script failed: " followed by the captured stderr, or by the exit code
\* when stderr is empty; when it is the error event of a process that could
\* not be started the item fails with "Failed to start script: ...".
C12_SuccessIffCleanExit ==
    \A r \in Runs :
        (variant[r] # "off" /\ LastAttempt(r) \in DOMAIN proc[r]) =>
            LET p == proc[r][LastAttempt(r)]
                first == p.events[1]
            IN (p.promise = "settled" /\ p.kind # "gone") =>
                /\ (first = "close:0") <=> (failure[r] \notin InvocationFailures)
                /\ first = "close:0" =>
                      /\ p.result = Trim(script.stdout)
                      /\ script.kind = "exits" /\ script.code = "0"
                /\ (first \notin {"close:0", "error", "timeout"}) =>
                      /\ script.code # "0" \/ p.killed
                      /\ failure[r] \in
                            IF script.stderr # "" /\ ~p.killed
                            THEN {"Script failed: " \o script.stderr}
                            ELSE {"Script failed: " \o w \o CodeOf(first) :
                                     w \in {"Script exited with code ", "Exited with code "}}
                /\ first = "error" =>
                      /\ script.kind = "nolaunch"
                      /\ failure[r] = IF variant[r] = "flags"
                                      THEN "Failed to start script: spawn python3 ENOENT"
                                      ELSE "Failed to start script: spawn python ENOENT"

\* A script that exited with code 1 and an empty stderr has failed its item
\* with the exit code in the message.
C12_Witness ==
    \E r \in Runs :
        /\ LastAttempt(r) \in DOMAIN proc[r]
        /\ proc[r][LastAttempt(r)].settledBy = "close:1"
        /\ script.stderr = ""
        /\ failure[r] \in {"Script failed: Script exited with code 1",
                            "Script failed: Exited with code 1"}
\* The record of the attempt of run r that was completed last.
LastRecord(r) == returnData[r][LastAttempt(r) + 1]

\* The invocation of the last attempt of run r succeeded and the attempt is over.
SucceededAttempt(r) ==
    /\ AttemptOver(r)
    /\ LastAttempt(r) \in DOMAIN proc[r]
    /\ proc[r][LastAttempt(r)].kind # "gone"
    /\ proc[r][LastAttempt(r)].settledBy = "close:0"

\* C13: after a successful invocation, a stdout that is not JSON gives the
\* item the record body {output: <trimmed stdout>, parseError: true} and no
\* error; a stdout that is a JSON object without the two binary fields gives
\* the item that object as its record body.
C13_DecodeFallback ==
    \A r \in Runs :
        SucceededAttempt(r) =>
            /\ script.stdout = <<"not json", "\n">> =>
                  /\ failure[r] = ""
                  /\ Len(returnData[r]) = LastAttempt(r) + 1
                  /\ LastRecord(r).json = JObject([output |-> "not json", parseError |-> TRUE])
                  /\ LastRecord(r).pairedItem.item = LastAttempt(r)
            /\ script.stdout = <<"{\"status\":\"ok\"}", "\n">> =>
                  /\ failure[r] = ""
                  /\ Len(returnData[r]) = LastAttempt(r) + 1
                  /\ LastRecord(r).json = JObject([status |-> "ok"])
                  /\ DOMAIN LastRecord(r) = {"json", "pairedItem"}

\* A run has ended an attempt with the text fallback record.
C13_Witness ==
    \E r \in Runs :
        /\ SucceededAttempt(r)
        /\ script.stdout = <<"not json", "\n">>
        /\ LastRecord(r).json.fields.parseError = TRUE
        /\ LastRecord(r).json.fields.output = "not json"
\* What each stdout of Stdouts decodes to.
Decoded(out) ==
    CASE out = <<"not json", "\n">> -> JObject([output |-> "not json", parseError |-> TRUE])
      [] out = <<"{\"status\":\"ok\"}", "\n">> -> JObject([status |-> "ok"])
      [] out = <<"null">> -> JNull
      [] OTHER -> JObject([binary_data |-> "YWJj", file_name |-> "x.bin"])

\* C14: in the parameter-file variant, after a successful invocation, a
\* decoded result with both binary_data and file_name gives the item a record
\* with the decoded bytes as the attachment 'data', under that file name, and
\* an empty JSON body; every other decoded result gives it a record without
\* attachment whose body is the decoded JSON or the text fallback.
C14_BinaryOutput ==
    \A r \in Runs :
        (variant[r] = "file" /\ SucceededAttempt(r)) =>
            /\ Len(returnData[r]) = LastAttempt(r) + 1
            /\ IF script.stdout = <<"\n", "{\"binary_data\":\"YWJj\",\"file_name\":\"x.bin\"}", "\n">>
               THEN LastRecord(r) =
                      [json |-> JObject(<<>>),
                       binary |-> [data |-> [bytes |-> "abc", fileName |-> "x.bin"]],
                       pairedItem |-> [item |-> LastAttempt(r)]]
               ELSE LastRecord(r) =
                      [json |-> Decoded(script.stdout),
                       pairedItem |-> [item |-> LastAttempt(r)]]

\* An item of the parameter-file variant has a record with the attachment.
C14_Witness ==
    \E r \in Runs :
        /\ variant[r] = "file" /\ SucceededAttempt(r)
        /\ Len(returnData[r]) = LastAttempt(r) + 1
        /\ "binary" \in DOMAIN LastRecord(r)
        /\ LastRecord(r).binary.data.bytes = "abc"
\* C19: a process that exists for an attempt was given the parameters that
\* the schema of the selected function yields for the item (as flags, or as
\* the parameter file), and an attempt whose schema could not be loaded has
\* failed and has no process: no script runs with an empty or partial
\* parameter set.
C19_UnreadableSchemaFails ==
    \A r \in Runs :
        (variant[r] # "off" /\ pc[r] # "returned" /\ LastAttempt(r) \in DOMAIN proc[r]) =>
            LET p == proc[r][LastAttempt(r)]
            IN /\ failure[r] = MsgReadJson("f1.ui.json") => p = NoProc
               /\ (p # NoProc /\ p.kind # "gone") =>
                     IF variant[r] = "flags"
                     THEN p.argv = <<"f1.py">> \o BuildArgs(Item(r), UiProperties)
                     ELSE /\ Len(p.argv) = 2
                          /\ p.argv[1] = "f1.py"
                          /\ p.argv[2] \in DOMAIN created[r]

\* In the parameter-file variant an item has failed on its unreadable schema
\* and no process was spawned for it.
C19_Witness ==
    \E r \in Runs :
        /\ variant[r] = "file" /\ failure[r] = MsgReadJson("f1.ui.json")
        /\ proc[r][LastAttempt(r)] = NoProc
\* C15: with the manifest file absent, the form builder ends without having
\* registered anything (the registry is the selectedFunction entry alone) and
\* without an exception; and in execute every item fails with the error that
\* says the manifest is missing ("Manifest file not found: <manifest>", the
\* one message of the program for that, which a manifest that is there but
\* does not parse never gives), its record, if any, is that error record,
\* and no process is spawned.
C15_ManifestAbsent ==
    /\ manifest.state = "absent" =>
          /\ build.pc \in {"accessManifest", "done"}
          /\ registry = <<[name |-> "selectedFunction", type |-> "options",
                           displayOptions |-> <<>>]>>
    /\ \A r \in Runs :
          manifest.state = "absent" =>
            /\ \A i \in DOMAIN proc[r] : proc[r][i] = NoProc
            /\ \A j \in 1..Len(returnData[r]) :
                  returnData[r][j] =
                    [json |-> JObject([error |->
                                 "Manifest file not found: ffmpeg_node_manifest.json"]),
                     pairedItem |-> [item |-> j - 1]]
            /\ pc[r] = "returned" => Len(returnData[r]) = itemCount[r]
            /\ pc[r] \in {"off", "loop", "accessManifest", "readManifest", "finally",
                           "thrown", "returned"}
            /\ (AttemptOver(r) /\ LastAttempt(r) >= 0 /\ pc[r] # "returned") =>
                  failure[r] = "Manifest file not found: ffmpeg_node_manifest.json"

\* The build is complete, and a run of the CLI-flag variant has failed an item
\* that selects a function on the missing manifest.
C15_Witness ==
    /\ manifest.state = "absent"
    /\ build.pc = "done"
    /\ \E r \in Runs :
          /\ AttemptOver(r) /\ LastAttempt(r) >= 0 /\ pc[r] # "returned"
          /\ Truthy(Item(r).params[<<"selectedFunction">>])
          /\ failure[r] = "Manifest file not found: ffmpeg_node_manifest.json"
\* The host shows a property under the parameter values `vals` if every key of
\* show has one of its listed values and no key of hide has.
Range(f) == {f[x] : x \in DOMAIN f}
Visible(d, vals) ==
    /\ "show" \in DOMAIN d => \A k \in DOMAIN d["show"] : vals[k] \in Range(d["show"][k])
    /\ "hide" \in DOMAIN d => \A k \in DOMAIN d["hide"] : vals[k] \notin Range(d["hide"][k])
ParameterValues ==
    {("selectedFunction" :> f) @@ ("text" :> t) :
        f \in {"f1", "f2", "f3", "other"}, t \in {"hello", "off", ""}}

\* The named and typed entries of a properties array.
IsValidProp(e) == e.jtype = "object" /\ e.name # "" /\ e.type # ""
ValidProps(props) == SelectSeq(props, IsValidProp)

\* The valid properties of the schemas of the functions fns, in manifest and
\* schema order, each with the id of its function.
RECURSIVE ValidOf(_)
ValidOf(fns) ==
    IF fns = <<>> THEN <<>>
    ELSE LET func == Head(fns)
             own == IF ValidConfig(func) /\ schemas[func.uiFile].state = "ok"
                    THEN LET v == ValidProps(schemas[func.uiFile].properties)
                         IN [i \in 1..Len(v) |-> [raw |-> v[i], owner |-> func.value]]
                    ELSE <<>>
         IN own \o ValidOf(Tail(fns))

\* C16: when the build is complete on a manifest with a functions array, the
\* registry is the selectedFunction entry followed by exactly the valid
\* (named and typed) properties of the schemas of the functions, in manifest
\* and schema order, and each of them is visible exactly when selectedFunction
\* is the id of its function (and the property's own conditions in the schema
\* are met).
C16_RegisteredIsUnionOfValid ==
    (build.pc = "done" /\ manifest.state = "ok") =>
        LET want == ValidOf(manifest.functions)
        IN /\ Len(registry) = 1 + Len(want)
           /\ \A j \in 1..Len(want) :
                 /\ registry[j + 1].name = want[j].raw.name
                 /\ registry[j + 1].type = want[j].raw.type
                 /\ \A vals \in ParameterValues :
                       Visible(registry[j + 1].displayOptions, vals)
                       <=> /\ vals["selectedFunction"] = want[j].owner
                           /\ Visible(want[j].raw.displayOptions, vals)

\* The build is complete and has registered properties of two functions.
C16_Witness ==
    /\ build.pc = "done"
    /\ \E i, j \in 2..Len(registry) :
          /\ i < j
          /\ registry[i].displayOptions["show"]["selectedFunction"] = <<"f1">>
          /\ registry[j].displayOptions["show"]["selectedFunction"] = <<"f2">>
\* Every condition of the displayOptions d is in the displayOptions rd, with
\* its value; `but` names the keys of show left out of the comparison.
Preserved(d, rd, but) ==
    \A k \in DOMAIN d :
        /\ k \in DOMAIN rd
        /\ IF k = "show"
           THEN \A key \in DOMAIN d[k] \ but :
                   key \in DOMAIN rd[k] /\ rd[k][key] = d[k][key]
           ELSE rd[k] = d[k]

\* The entries of the schema of function `value` that are registered under
\* `name`.
SourcesOf(name, value) ==
    {e \in UNION {Range(schemas[func.uiFile].properties) :
                    func \in {g \in Range(manifest.functions) :
                                ValidConfig(g) /\ g.value = value}} :
        IsValidProp(e) /\ e.name = name}

\* C17: every registered dynamic property still has every visibility
\* condition its schema entry declares, with the original value: every key of
\* displayOptions.show, a selectedFunction entry included, and every other key
\* of displayOptions, such as hide.
C17_ConditionsPreserved ==
    \A j \in 2..Len(registry) :
        \A e \in SourcesOf(registry[j].name,
                           registry[j].displayOptions["show"]["selectedFunction"][1]) :
            Preserved(e.displayOptions, registry[j].displayOptions, {})

\* What the merge does keep: a property is registered whose schema entry
\* declares a show condition on another parameter, and a hide condition, and
\* both are in the registered property.
C17_Witness ==
    \E j \in 2..Len(registry) :
        /\ registry[j].name = "mode"
        /\ registry[j].displayOptions["show"]["text"] = <<"hello">>
        /\ registry[j].displayOptions["hide"] = ("text" :> <<"off">>)
\* The schema file is missing or unparsable, or processing it fails (one of
\* its entries makes the loop throw).
SchemaFails(file) ==
    file.state # "ok" \/ \E e \in Range(file.properties) : e.jtype = "null"

\* What the functions fns are to contribute: nothing for a function whose
\* schema fails, the valid properties of its schema for any other.
RECURSIVE Contributions(_)
Contributions(fns) ==
    IF fns = <<>> THEN <<>>
    ELSE LET func == Head(fns)
             own == IF ValidConfig(func) /\ ~SchemaFails(schemas[func.uiFile])
                    THEN LET v == ValidProps(schemas[func.uiFile].properties)
                         IN [i \in 1..Len(v) |-> <<v[i].name, func.value>>]
                    ELSE <<>>
         IN own \o Contributions(Tail(fns))

\* C18: the build never ends in an exception, and when it is complete the
\* registry holds, after the selectedFunction entry, no property of a function
\* whose schema file is missing, unparsable or fails while being processed,
\* and all the valid properties of every other function of the manifest, in
\* order.
C18_FailedSchemaContributesNothing ==
    /\ build.pc \in {"accessManifest", "readManifest", "accessUi", "readUi", "done"}
    /\ (build.pc = "done" /\ manifest.state = "ok") =>
          [j \in 1..(Len(registry) - 1) |->
              <<registry[j + 1].name,
                registry[j + 1].displayOptions["show"]["selectedFunction"][1]>>]
          = Contributions(manifest.functions)

\* The build is complete on a manifest of two functions: the schema of the
\* first is missing or unparsable, the properties of the second are registered.
C18_Witness ==
    /\ build.pc = "done"
    /\ manifest.state = "ok"
    /\ Len(manifest.functions) = 2
    /\ manifest.functions[1].value = "f1"
    /\ schemas["f1.ui.json"].state # "ok"
    /\ Len(registry) = 2
    /\ registry[2].displayOptions["show"]["selectedFunction"] = <<"f2">>
\* execute of run r has been called.
Begun(r) == variant[r] # "off" /\ ~(pc[r] = "loop" /\ itemIndex[r] = 0)

\* C20: the registry is written only during initialization, and that is over
\* before execute is called: while a run of execute is under way or after it,
\* the form builder is complete.
C20_RegistryCompleteBeforeExecute ==
    \A r \in Runs : Begun(r) => build.pc = "done"

\* execute has run to its end on a node whose form builder had completed and
\* registered its dynamic properties.
C20_Witness ==
    \E r \in Runs :
        /\ pc[r] = "returned" /\ itemCount[r] > 0
        /\ build.pc = "done"
        /\ Len(registry) > 1
\* The value a schema entry resolves to for an item in the CLI-flag variant:
\* the host's value, else the default of the descriptor ('' if it has none).
ClaimedValue(it, e) == IF e.name \in DOMAIN it.params THEN it.params[e.name] ELSE e.default

\* What an entry of the schema is to contribute to the argument list.
ClaimedPair(it, e) ==
    IF e = JNull THEN <<>>
    ELSE IF e.name = <<>> THEN <<>>
    ELSE IF ClaimedValue(it, e) = Str("") THEN <<>>
    ELSE <<"--" \o NameStr(e.name), ToStr(ClaimedValue(it, e))>>

RECURSIVE ClaimedArgs(_, _)
ClaimedArgs(it, props) ==
    IF props = <<>> THEN <<>>
    ELSE ClaimedPair(it, Head(props)) \o ClaimedArgs(it, Tail(props))

\* C21: in the CLI-flag variant the arguments after the script path are, in
\* schema order, the pair <<"--name", String(value)>> of every entry of the
\* schema that has a name and whose value (the host's, else the default of the
\* descriptor, else '') is not empty, and nothing else; the list has even
\* length and a flag name at every other position.
C21_FlagArguments ==
    \A r \in Runs :
        (variant[r] = "flags" /\ pc[r] # "returned" /\ LastAttempt(r) \in DOMAIN proc[r]) =>
            LET p == proc[r][LastAttempt(r)]
                args == SubSeq(p.argv, 2, Len(p.argv))
            IN (p # NoProc /\ p.kind # "gone") =>
                /\ p.argv[1] = "f1.py"
                /\ args = ClaimedArgs(Item(r), uiProps)
                /\ Len(args) % 2 = 0
                /\ \A j \in 1..Len(args) :
                      j % 2 = 1 =>
                        args[j] \in {"--" \o NameStr(e.name) : e \in UiEntries \ {JNull}}

\* A process of the CLI-flag variant was given a flag whose value is the
\* default of the descriptor, after a flag whose value is the host's.
C21_Witness ==
    \E r \in Runs :
        /\ variant[r] = "flags"
        /\ LastAttempt(r) \in DOMAIN proc[r]
        /\ proc[r][LastAttempt(r)].argv =
              <<"f1.py", "--text", "hello", "--aBinaryPropertyName", "data">>
\* The names of the schema entries whose lookup succeeds for the item.
LookedUp(it, props) ==
    {props[j].name : j \in {i \in 1..Len(props) :
                               /\ props[i] # JNull
                               /\ props[i].name # <<>>
                               /\ props[i].name \in DOMAIN it.params}}

\* C22: in the parameter-file variant the parameter file a process is given
\* holds exactly the named properties of the schema whose lookup succeeds for
\* the item, those after a property whose lookup throws included, each with
\* the host's value unless the binary bridge replaced it by a path; and no
\* item fails on a lookup that throws.
C22_SkipFailedLookups ==
    \A r \in Runs :
        (variant[r] = "file" /\ pc[r] # "returned") =>
            /\ failure[r] \in {"", MsgNoFunction, MsgNullProp, MsgNullResult}
                               \cup {MsgNoBinary(k) : k \in {"data", "data2", "nope"}}
                               \cup InvocationFailures
            /\ failure[r] = MsgNullProp => \E j \in 1..Len(uiProps) : uiProps[j] = JNull
            /\ pc[r] = "await" =>
                  LET doc == fs[proc[r][itemIndex[r]].argv[2]].content.doc
                  IN /\ DOMAIN doc = LookedUp(Item(r), uiProps)
                     /\ \A k \in DOMAIN doc :
                           ~EndsWith(k, "BinaryPropertyName") => doc[k] = Item(r).params[k]

\* A process was given a parameter file without the first property of the
\* schema, whose lookup threw, and with the second.
C22_Witness ==
    \E r \in Runs :
        /\ variant[r] = "file" /\ pc[r] = "await"
        /\ uiProps = <<UiProperties[1], UiProperties[3]>>
        /\ <<"text">> \notin DOMAIN Item(r).params
        /\ fs[proc[r][itemIndex[r]].argv[2]].content.doc = (<<"a", "IsBinary">> :> Bool(TRUE))
\* The positions of the entries of the manifest on disk that have the id the
\* current item of run r selects.
Listed(r) ==
    {i \in 1..Len(manifest.functions) :
        manifest.functions[i].value = Item(r).params[<<"selectedFunction">>][2]}

\* The steps of an attempt between the read of the manifest and the spawn.
BeforeSpawn == {"accessScript", "accessUi", "loadUi", "readSchema", "getBuffer", "writeBin", "writeParams"}

\* C23: the step that reads the manifest for an item decides by the manifest
\* on disk at that step, whatever it was when the form was built or when an
\* earlier item was processed: if it lists the selected function the item goes
\* on with the script file of that entry, and the process spawned for the item
\* runs that script; if it does not, the item fails as not found, with no
\* process.
C23_ManifestReadPerItem ==
    [][\A r \in Runs :
          /\ (pc[r] = "readManifest" /\ pc[r]' # "readManifest") =>
                IF Listed(r) = {}
                THEN /\ failure[r]' \in {"Function 'f1' not found in manifest.",
                                          "Function 'f1' not found."}
                     /\ proc[r]' = proc[r]
                     /\ pc[r]' \notin BeforeSpawn
                ELSE /\ pc[r]' = "accessScript"
                     /\ loc[r]'.script =
                          manifest.functions[CHOOSE i \in Listed(r) :
                                               \A j \in Listed(r) : i <= j].scriptFile
          /\ (pc[r] \in BeforeSpawn /\ pc[r]' \in BeforeSpawn) =>
                loc[r]'.script = loc[r].script
          /\ (pc[r] \in BeforeSpawn /\ pc[r]' = "await") =>
                proc[r]'[itemIndex[r]].argv[1] = loc[r].script
    ]_vars

\* The first item of a batch failed because the manifest did not list its
\* function, and the second runs the renamed script that the manifest lists
\* now; the form was built from a manifest with the old script name.
C23_Witness ==
    \E r \in Runs :
        /\ itemCount[r] = 2
        /\ itemIndex[r] = 1
        /\ Len(returnData[r]) = 1
        /\ returnData[r][1] \in
              {[json |-> JObject([error |-> m]), pairedItem |-> [item |-> 0]] :
                 m \in {"Function 'f1' not found in manifest.", "Function 'f1' not found."}}
        /\ proc[r][1] # NoProc
        /\ proc[r][1].argv[1] = "f1_v2.py"
        /\ \E j \in 2..Len(registry) :
              registry[j].displayOptions["show"]["selectedFunction"] = <<"f1">>
\* The process spawned for the current item of run r is running.
ProcessRuns(r) ==
    /\ itemIndex[r] \in DOMAIN proc[r]
    /\ proc[r][itemIndex[r]].state = "running"

\* The cleanup of the current item of run r starts only after the item's
\* process has closed or failed to start (or was never spawned).
CleanupAfterProcess(r) ==
    (pc[r] = "finally" /\ itemIndex[r] \in DOMAIN proc[r]) =>
        LET p == proc[r][itemIndex[r]]
        IN \/ p = NoProc
           \/ p.closed
           \/ \E j \in 1..Len(p.events) : p.events[j] = "error"

\* C24: in the parameter-file variant no step removes a temp file of an item
\* (its parameter file or a binary-input file) from the temp directory while
\* the process spawned for that item is running, and the cleanup of an item
\* starts only after its process has closed or failed to start.
C24_NoCleanupWhileRunning ==
    [][\A r \in Runs :
          variant[r] = "file" =>
              /\ ProcessRuns(r) =>
                    \A k \in 1..Len(tempFiles[r]) :
                        tempFiles[r][k] \in DOMAIN fs => tempFiles[r][k] \in DOMAIN fs'
              /\ CleanupAfterProcess(r)'
    ]_vars

\* The process of one run is running on its parameter file while the other
\* run is in its finally block with a file to delete.
C24_Witness ==
    \E r, q \in Runs :
        /\ r # q
        /\ ProcessRuns(r)
        /\ proc[r][itemIndex[r]].argv[2] \in DOMAIN fs
        /\ pc[q] = "finally"
        /\ loc[q].k <= Len(tempFiles[q])
        /\ tempFiles[q][loc[q].k] \in DOMAIN fs
\* C25: in the CLI-flag variant, once the promise of an item's invocation has
\* settled (by close, by a launch error or by the timeout) the timer of that
\* invocation is not armed any more, so that it cannot fire, and call kill,
\* after the item's outcome was reported or during a later item.
C25_TimerDisarmedOnceSettled ==
    \A r \in Runs : \A i \in DOMAIN proc[r] :
        (variant[r] = "flags" /\ proc[r][i].promise = "settled") =>
            proc[r][i].timer \in {"cleared", "fired"}

\* The launch of an item's process failed, the item's error is recorded and
\* the next item is being processed.
C25_Witness ==
    \E r \in Runs :
        /\ variant[r] = "flags"
        /\ itemIndex[r] = 1
        /\ pc[r] \notin {"loop", "done", "thrown"}
        /\ Len(returnData[r]) = 1
        /\ returnData[r][1] =
              [json |-> JObject([error |-> "Failed to start script: spawn python3 ENOENT"]),
               pairedItem |-> [item |-> 0]]
        /\ proc[r][0].promise = "settled"
\* C26: in both variants, an attempt whose process closed with exit code 0
\* (settling the invocation) ends with a success record for its item, no
\* error record and no thrown error, for every stdout of Stdouts: text that
\* is not JSON, a JSON object, and the JSON value null.
C26_CleanExitYieldsRecord ==
    \A r \in Runs :
        SucceededAttempt(r) =>
            /\ failure[r] = ""
            /\ pc[r] # "thrown"
            /\ ~loc[r].rethrow
            /\ Len(returnData[r]) = LastAttempt(r) + 1
            /\ LastRecord(r).pairedItem.item = LastAttempt(r)
            /\ LastRecord(r).json \in {JNull, JObject(<<>>)}
                  \/ "error" \notin DOMAIN LastRecord(r).json.fields

\* The CLI-flag variant has ended an attempt whose script printed null and
\* exited with code 0: the item's record has the body null.
C26_Witness ==
    \E r \in Runs :
        /\ variant[r] = "flags"
        /\ SucceededAttempt(r)
        /\ script.stdout = <<"null">>
        /\ Len(returnData[r]) = LastAttempt(r) + 1
        /\ LastRecord(r) = [json |-> JNull, pairedItem |-> [item |-> LastAttempt(r)]]
====
